---- MODULE Spec2Model ----
(***************************************************************************)
(* Conversation store of the chat backend (backend/services/db.py), the    *)
(* chat handler that drives it (backend/api/rag_router.py), the admin      *)
(* endpoints (backend/api/admin_router.py) and the background cleanup loop *)
(* (backend/main.py).                                                      *)
(*                                                                         *)
(* Granularity: every function of db.py is one transaction and is taken as *)
(* one atomic step.  chat_endpoint is an `async def` without an await      *)
(* between its db calls, so chat requests and the cleanup loop, which      *)
(* share the event loop, never interleave with each other; the admin       *)
(* endpoints are plain `def` and run in the worker thread pool, so they    *)
(* interleave with a chat request between any two of its db calls.         *)
(***************************************************************************)
EXTENDS Integers, Sequences, FiniteSets, TLC

VARIABLES
    conversations,  \* table conversations: set of rows
    messages,       \* table messages: sequence of rows, in insertion (rowid) order
    leads,          \* table leads: set of rows
    nextId,         \* number of uuid4 values drawn so far
    now,            \* the wall clock read by datetime.utcnow(), in clock ticks
    pc,             \* position of the chat request in flight ("idle" when none)
    req,            \* local variables of the chat request in flight
    resp,           \* the last response of the chat endpoint: HTTP status, is_lead
    task,           \* state of _cleanup_task / position of _cleanup_loop
    resolved,       \* per session id, the id the last upsert_conversation call returned
    call            \* a call of a helper function: its arguments and what it returned

vars == <<conversations, messages, leads, nextId, now, pc, req, resp, task, resolved, call>>

store == <<conversations, messages, leads>>

----------------------------------------------------------------------------
(* Bounds of the model *)

\* datetime resolution: clock ticks per second (1000000 in the program)
TicksPerSec == 2
\* the clock stops advancing here
MaxTime == 4
\* uuid4 values that can be drawn
MaxIds == 4
\* SESSION_TTL_SECONDS, scaled to the model's clock
TtlSeconds == 1
\* entries of one kind in a knowledge base
MaxEntries == 2
\* requests to /ask
MaxAsks == 2
\* tokens of a text given to chunk_text_by_words
MaxTextLen == 4
\* largest chunk_size and overlap
MaxChunkSize == 3
\* calls of get_chroma_client
MaxCalls == 3
\* tokens of the text extracted from a PDF
MaxPdfTokens == 2
\* chunk_size and overlap of ingest_pdf_bytes (800 and 100), scaled
IngestChunkSize == 2
IngestOverlap == 1
\* chunks of the list chunk_text_by_words builds that are kept
MaxLoop == 6
\* blanks and words of a question
MaxQuestionLen == 3

(* Program constants *)

\* ord("."), the separator isoformat() writes before the microseconds
DotCode == 46
\* ord("Z"), the suffix _now() appends
ZCode == 90
\* limit of the history read by chat_endpoint
HistoryLimit == 20
\* messages of the history placed in the prompt
PromptHistory == 6
\* KEYWORD_WEIGHTS, in hundredths
WDemo == 95
WPrice == 85
WInterested == 75
WContact == 65
WSchedule == 80
\* score when an email address or a phone number is present, in hundredths
WContactInfo == 98
\* LEAD_THRESHOLD, in hundredths
LEAD_THRESHOLD == 75
\* default of max_chunks in find_relevant_chunks
DefaultMaxChunks == 3

NoId == 0
Ids == 1..MaxIds
None == "None"
\* session tokens: what a client may send and what uuid4().hex[:12] may yield
Sessions == {"s1", "s2"}

Min(a, b) == IF a < b THEN a ELSE b
Max(a, b) == IF a > b THEN a ELSE b

----------------------------------------------------------------------------
(* Timestamps: ISO-8601 text, compared as text *)

\* datetime.isoformat() + "Z": the fraction is omitted when the microsecond is 0.
\* The date-and-seconds field and the fraction are fixed-width, so each is one
\* element here; "." and "Z" are their character codes.
IsoFormat(t) ==
    LET s == t \div TicksPerSec
        u == t % TicksPerSec
    IN  IF u = 0 THEN <<s, ZCode>> ELSE <<s, DotCode, u, ZCode>>

_now == IsoFormat(now)

\* _parse_iso: datetime.fromisoformat(s.replace("Z", ""))
_parse_iso(s) ==
    IF Len(s) = 2 THEN s[1] * TicksPerSec ELSE s[1] * TicksPerSec + s[3]

\* SQLite's BINARY collation on TEXT (memcmp, then length): a < b
TextLess(a, b) ==
    \E i \in 1..(Min(Len(a), Len(b)) + 1) :
        /\ \A j \in 1..(i - 1) : a[j] = b[j]
        /\ \/ i > Len(a) /\ i <= Len(b)
           \/ i <= Len(a) /\ i <= Len(b) /\ a[i] < b[i]

----------------------------------------------------------------------------
(* Texts are sequences of words or phrases *)

Has(text, w) == \E i \in 1..Len(text) : text[i] = w
HasAny(text, ws) == \E i \in 1..Len(text) : text[i] \in ws

short_greeting == <<"hey">>
choice_prompt == <<"hey again", "would you like", "overview">>
services_overview == <<"we provide", "which interests you">>
discovery == <<"great", "details">>
demo_msg == <<"sure", "demo">>
reprompt == <<"do you want", "overview">>
greeting == <<"Namaste", "how can i help">>

\* what clients send (after strip)
UserTexts == { <<"hi">>, <<"pricing">> }
\* what the LLM answers
LlmReplies == { <<"answer">> }

\* str.lower(), word by word
Lower(text) ==
    [i \in 1..Len(text) |-> IF text[i] = "Namaste" THEN "namaste"
                            ELSE IF text[i] = "Pricing" THEN "pricing"
                            ELSE text[i]]

is_short_greeting(txt) ==
    /\ Len(txt) >= 1
    /\ Len(txt) <= 4
    /\ \/ txt[1] \in {"hi", "hello", "hey"}
       \/ txt[Len(txt)] \in {"hi", "hello", "hey"}

assistant_said(history, w) ==
    \E i \in 1..Len(history) :
        history[i].role = "assistant" /\ Has(history[i].text, w)

assistant_asked_choice(history) ==
    \E i \in 1..Len(history) :
        /\ history[i].role = "assistant"
        /\ Has(history[i].text, "would you like")
        /\ HasAny(history[i].text, {"overview", "talk about your business needs"})

interpret_choice_reply(txt) ==
    IF HasAny(txt, {"service", "services", "overview", "explain"}) THEN "SERVICES"
    ELSE IF HasAny(txt, {"need", "automate", "problem", "project", "help", "business"}) THEN "NEEDS"
    ELSE IF HasAny(txt, {"demo", "call", "schedule", "meeting"}) THEN "DEMO"
    ELSE "UNKNOWN"

\* the words that suppress the canonical greeting
reply_has_greeting_words(reply) ==
    HasAny(Lower(reply), {"namaste", "nice to connect", "would you like", "overview",
                   "how can i help", "reply with"})

compute_interest_score(text) ==
    LET w1 == IF HasAny(text, {"demo", "schedule demo", "book demo"}) THEN WDemo ELSE 0
        w2 == IF HasAny(text, {"price", "pricing", "cost", "quote"}) THEN WPrice ELSE 0
        w3 == IF HasAny(text, {"interested", "want to buy", "purchase", "signup",
                                    "sign up", "get started"}) THEN WInterested ELSE 0
        w4 == IF HasAny(text, {"contact", "call me", "reach out", "connect"}) THEN WContact ELSE 0
        w5 == IF HasAny(text, {"schedule", "meeting", "request demo"}) THEN WSchedule ELSE 0
    IN  Max(w1, Max(w2, Max(w3, Max(w4, w5))))

extract_contact(text) == HasAny(text, {"email@", "+phone"})

\* the score of the user message alone
score_message(message_text, reply) ==
    LET s == compute_interest_score(Lower(message_text))
    IN  IF extract_contact(message_text) THEN Max(s, WContactInfo) ELSE s

score_combined(message_text, reply) ==
    LET combined_text == message_text \o reply
        s == compute_interest_score(Lower(combined_text))
    IN  IF extract_contact(combined_text) THEN Max(s, WContactInfo) ELSE s

----------------------------------------------------------------------------
(* The tables and the functions of db.py *)

NoReq == [conversation_id |-> NoId, session_id |-> None, message_text |-> <<>>,
          recent_history |-> <<>>, reply |-> <<>>, llm_calls |-> 0]
NoResp == [status |-> 0, is_lead |-> FALSE]
\* no helper function is being called
NoCall == [fn |-> None]

ConvIds(convs) == {c.id : c \in convs}
ConvExists(cid) == cid \in ConvIds(conversations)
ConvOf(cid) == CHOOSE c \in conversations : c.id = cid
MessagesOf(msgs, cid) == SelectSeq(msgs, LAMBDA m : m.conversation_id = cid)
MessageSet(msgs) == {msgs[i] : i \in 1..Len(msgs)}

\* uuid.uuid4(): a value never drawn before
uuid4 == nextId + 1

\* the model has ids left to draw
HasFreeId == nextId < MaxIds

\* the column declared without UNIQUE
UniqueViolationNever(convs, session_id) == FALSE

\* session_id TEXT UNIQUE: the INSERT raises IntegrityError when this holds
UniqueViolation(convs, session_id) == \E c \in convs : c.session_id = session_id

\* the SELECT finds no row
SelectBySessionNone(convs, session_id) == {}

\* SELECT id, session_id FROM conversations WHERE session_id = ?
SelectBySession(convs, session_id) == {c \in convs : c.session_id = session_id}

\* the UPDATE left out
UpdateLastActivityNone(convs, cid, ts) == convs

\* UPDATE conversations SET last_activity = ? WHERE id = ?
UpdateLastActivity(convs, cid, ts) ==
    {IF c.id = cid THEN [c EXCEPT !.last_activity = ts] ELSE c : c \in convs}

\* upsert written as INSERT OR REPLACE: the row of the session is replaced
upsert_replace(session_id, token) ==
    LET new_session == IF session_id = None THEN token ELSE session_id
    IN  [convs |-> {c \in conversations : c.session_id # new_session} \cup
                     {[id |-> uuid4, session_id |-> new_session, title |-> "Chat",
                       created_at |-> _now, last_activity |-> _now]},
         id |-> uuid4, session_id |-> new_session,
         created |-> TRUE, raised |-> FALSE]

\* upsert_conversation; token is the value uuid4().hex[:12] yields if it is drawn
upsert_conversation(session_id, token) ==
    LET rows == IF session_id = None THEN {}
                ELSE SelectBySession(conversations, session_id)
    IN  IF rows # {}
        THEN LET row == CHOOSE r \in rows : TRUE
             IN  [convs |-> UpdateLastActivity(conversations, row.id, _now),
                  id |-> row.id, session_id |-> row.session_id,
                  created |-> FALSE, raised |-> FALSE]
        ELSE LET new_id == uuid4
                 new_session == IF session_id = None THEN token ELSE session_id
             IN  IF UniqueViolation(conversations, new_session)
                 THEN [convs |-> conversations, id |-> NoId, session_id |-> None,
                       created |-> FALSE, raised |-> TRUE]
                 ELSE [convs |-> conversations \cup
                                   {[id |-> new_id, session_id |-> new_session,
                                     title |-> "Chat", created_at |-> _now,
                                     last_activity |-> _now]},
                       id |-> new_id, session_id |-> new_session,
                       created |-> TRUE, raised |-> FALSE]

\* save_message: the new tables
save_message(conversation_id, role, text) ==
    [msgs |-> Append(messages,
                     [id |-> uuid4, conversation_id |-> conversation_id,
                      role |-> role, text |-> text, file_url |-> None,
                      created_at |-> _now]),
     convs |-> UpdateLastActivity(conversations, conversation_id, _now)]

\* the orders ORDER BY created_at DESC may produce over the rows with indices in
\* S: rows with equal keys come in an order SQL leaves open
RECURSIVE DescOrdersOf(_, _)
DescOrdersOf(rows, S) ==
    IF S = {} THEN {<<>>}
    ELSE UNION {{<<i>> \o p : p \in DescOrdersOf(rows, S \ {i})} :
                  i \in {k \in S : \A j \in S :
                            ~TextLess(rows[k].created_at, rows[j].created_at)}}

DescOrders(rows) == DescOrdersOf(rows, 1..Len(rows))

\* get_last_messages: the results it may return
get_last_messages(conversation_id, limit) ==
    LET rows == MessagesOf(messages, conversation_id)
        k == Min(limit, Len(rows))
    IN  {[i \in 1..k |-> [role |-> rows[p[k + 1 - i]].role,
                          text |-> rows[p[k + 1 - i]].text,
                          created_at |-> rows[p[k + 1 - i]].created_at]] :
            p \in DescOrders(rows)}

\* create_lead: the new table
create_lead(conversation_id, snippet, score, detected_contact) ==
    leads \cup {[id |-> uuid4, conversation_id |-> conversation_id,
                 interest |-> snippet, score |-> score,
                 metadata |-> detected_contact, created_at |-> _now]}

\* DELETE FROM messages without its WHERE clause
DeleteRowsAllMessages(tables, cid) ==
    [msgs |-> <<>>,
     leads |-> {l \in tables.leads : l.conversation_id # cid},
     convs |-> {c \in tables.convs : c.id # cid}]

\* the three DELETE statements for one conversation id
DeleteRows(tables, cid) ==
    [msgs |-> SelectSeq(tables.msgs, LAMBDA m : m.conversation_id # cid),
     leads |-> {l \in tables.leads : l.conversation_id # cid},
     convs |-> {c \in tables.convs : c.id # cid}]

Tables == [msgs |-> messages, leads |-> leads, convs |-> conversations]

\* delete_conversation: the new tables and the value returned
delete_conversation(conversation_id) ==
    [tables |-> DeleteRows(Tables, conversation_id), ret |-> TRUE]

\* SELECT id FROM conversations WHERE last_activity < ?
SelectExpired(convs, cutoff_iso) ==
    {c.id : c \in {x \in convs : TextLess(x.last_activity, cutoff_iso)}}

RECURSIVE DeleteAll(_, _)
DeleteAll(tables, ids) ==
    IF ids = {} THEN tables
    ELSE LET cid == CHOOSE i \in ids : TRUE
         IN  DeleteAll(DeleteRows(tables, cid), ids \ {cid})

\* cleanup_old_sessions: the ids it returns and the new tables
cleanup_old_sessions(ttl_seconds) ==
    LET cutoff == now - ttl_seconds * TicksPerSec
        cutoff_iso == IsoFormat(cutoff)
        ids == SelectExpired(conversations, cutoff_iso)
    IN  [ids |-> ids, tables |-> DeleteAll(Tables, ids)]

----------------------------------------------------------------------------
(* Initial state: the tables _init() creates are empty, no task is started *)

\* the empty tables of _init(), no request in flight, no task
EmptyStore ==
    /\ conversations = {}
    /\ messages = <<>>
    /\ leads = {}
    /\ nextId = 0
    /\ now = 0
    /\ pc = "idle"
    /\ req = NoReq
    /\ resp = NoResp
    /\ task = "none"
    /\ resolved = [s \in Sessions |-> NoId]

Init ==
    /\ EmptyStore
    /\ call = NoCall

\* _cleanup_task is alive
Running == task = "running"

\* between startup_event and shutdown_event: requests are served
Serving == task \notin {"none", "cancelled"}

\* datetime.utcnow() advances; the clock is read only while the application runs
Tick ==
    /\ Serving
    /\ now < MaxTime
    /\ now' = now + 1
    /\ UNCHANGED <<conversations, messages, leads, nextId, pc, req, resp, task, resolved, call>>

----------------------------------------------------------------------------
(* chat_endpoint *)

ChatResp(status, is_lead) == [status |-> status, is_lead |-> is_lead]

\* the content type tested after the conversation was looked up
ChatMultipartLate ==
    /\ Serving /\ pc = "idle"
    /\ HasFreeId
    /\ ~upsert_conversation(None, "s1").raised
    /\ conversations' = upsert_conversation(None, "s1").convs
    /\ nextId' = nextId + 1
    /\ resp' = ChatResp(400, FALSE)
    /\ UNCHANGED <<messages, leads, now, pc, req, task, resolved, call>>

\* content-type multipart/form-data: HTTP 400 before anything else
ChatMultipart ==
    /\ Serving /\ pc = "idle"
    /\ resp' = ChatResp(400, FALSE)
    /\ UNCHANGED <<conversations, messages, leads, nextId, now, pc, req, task, resolved, call>>

\* body parsed; conv = db.upsert_conversation(session_id)
ChatUpsertStep(session_id, message_text, token) ==
    /\ Serving /\ pc = "idle"
    /\ HasFreeId
    /\ LET conv == upsert_conversation(session_id, token)
       IN  IF conv.raised
           THEN /\ resp' = ChatResp(500, FALSE)
                /\ UNCHANGED <<conversations, nextId, pc, req>>
           ELSE /\ conversations' = conv.convs
                /\ nextId' = IF conv.created THEN nextId + 1 ELSE nextId
                /\ req' = [NoReq EXCEPT !.conversation_id = conv.id,
                                        !.session_id = conv.session_id,
                                        !.message_text = message_text]
                /\ pc' = "save_user"
                /\ resp' = resp
    /\ UNCHANGED <<messages, leads, now, task, call>>

ChatUpsert(session_id, message_text, token) ==
    /\ ChatUpsertStep(session_id, message_text, token)
    /\ UNCHANGED resolved

\* the same step, with the id returned for a non-empty session id recorded
ChatUpsertTracked(session_id, message_text, token) ==
    /\ ChatUpsertStep(session_id, message_text, token)
    /\ resolved' = IF session_id = None \/ upsert_conversation(session_id, token).raised
                   THEN resolved
                   ELSE [resolved EXCEPT ![session_id] =
                            upsert_conversation(session_id, token).id]

\* db.save_message(conversation_id, role="user", ...)
ChatSaveUser ==
    /\ pc = "save_user"
    /\ HasFreeId
    /\ LET r == save_message(req.conversation_id, "user", req.message_text)
       IN  /\ messages' = r.msgs
           /\ conversations' = r.convs
    /\ nextId' = nextId + 1
    /\ pc' = "history"
    /\ UNCHANGED <<leads, now, req, resp, task, resolved, call>>

\* recent_history = db.get_last_messages(conversation_id, limit=20)
ChatHistory ==
    /\ pc = "history"
    /\ \E h \in get_last_messages(req.conversation_id, HistoryLimit) :
          req' = [req EXCEPT !.recent_history = h]
    /\ pc' = "respond"
    /\ UNCHANGED <<conversations, messages, leads, nextId, now, resp, task, resolved, call>>

assistant_has_greeted == assistant_said(req.recent_history, "Namaste")

\* history = recent_history[:6]: the conversation history placed in the prompt
history ==
    SubSeq(req.recent_history, 1, Min(PromptHistory, Len(req.recent_history)))

\* the reply of the branches that answer without the LLM, <<>> when none applies
CannedReply ==
    LET greet == is_short_greeting(req.message_text)
        asked == assistant_asked_choice(req.recent_history)
        intent == interpret_choice_reply(req.message_text)
    IN  IF greet /\ ~assistant_has_greeted /\ ~asked THEN short_greeting
        ELSE IF greet /\ assistant_has_greeted /\ ~asked THEN choice_prompt
        ELSE IF asked THEN
            (IF intent = "SERVICES" THEN services_overview
             ELSE IF intent = "NEEDS" THEN discovery
             ELSE IF intent = "DEMO" THEN demo_msg
             ELSE reprompt)
        ELSE <<>>

\* branches 1-3: save the canned reply and answer
ChatCanned ==
    /\ pc = "respond"
    /\ CannedReply # <<>>
    /\ HasFreeId
    /\ LET r == save_message(req.conversation_id, "assistant", CannedReply)
       IN  /\ messages' = r.msgs
           /\ conversations' = r.convs
    /\ nextId' = nextId + 1
    /\ resp' = ChatResp(200, CannedReply = demo_msg)
    /\ pc' = "idle"
    /\ req' = NoReq
    /\ UNCHANGED <<leads, now, task, resolved, call>>

\* llm_handler.get_llm_response returns; the canonical greeting is prepended
ChatLlmReturn(reply) ==
    /\ pc = "respond"
    /\ CannedReply = <<>>
    /\ req' = [req EXCEPT
                 !.reply = IF ~assistant_has_greeted /\ ~reply_has_greeting_words(reply)
                           THEN greeting \o reply ELSE reply,
                 !.llm_calls = @ + 1]
    /\ pc' = "save_reply"
    /\ UNCHANGED <<conversations, messages, leads, nextId, now, resp, task, resolved, call>>

\* the call tried again
AfterLlmErrorRetry == "respond"

\* where the handler continues when the LLM call raises: it raises
\* HTTPException(500) and ends
AfterLlmError == "idle"

\* llm_handler.get_llm_response raises
ChatLlmRaise ==
    /\ pc = "respond"
    /\ CannedReply = <<>>
    /\ pc' = AfterLlmError
    /\ IF AfterLlmError = "idle"
       THEN req' = NoReq /\ resp' = ChatResp(500, FALSE)
       ELSE req' = [req EXCEPT !.llm_calls = @ + 1] /\ resp' = resp
    /\ UNCHANGED <<conversations, messages, leads, nextId, now, task, resolved, call>>

\* db.save_message(conversation_id, role="assistant", text=reply)
ChatSaveReply ==
    /\ pc = "save_reply"
    /\ HasFreeId
    /\ LET r == save_message(req.conversation_id, "assistant", req.reply)
       IN  /\ messages' = r.msgs
           /\ conversations' = r.convs
    /\ nextId' = nextId + 1
    /\ pc' = "lead"
    /\ UNCHANGED <<leads, now, req, resp, task, resolved, call>>

\* lead detection and the response
ChatLead ==
    /\ pc = "lead"
    /\ HasFreeId
    /\ LET score == score_combined(req.message_text, req.reply)
           is_lead == score >= LEAD_THRESHOLD
       IN  /\ IF is_lead
              THEN /\ leads' = create_lead(req.conversation_id, req.message_text, score,
                                           extract_contact(req.message_text \o req.reply))
                   /\ nextId' = nextId + 1
              ELSE UNCHANGED <<leads, nextId>>
           /\ resp' = ChatResp(200, is_lead)
    /\ pc' = "idle"
    /\ req' = NoReq
    /\ UNCHANGED <<conversations, messages, now, task, resolved, call>>

----------------------------------------------------------------------------
(* admin_router: require_key, cleanup_run, delete_conversation *)

SetTables(t) ==
    /\ conversations' = t.convs
    /\ messages' = t.msgs
    /\ leads' = t.leads

\* every request is let through
require_key_open(key_ok) == 200

\* require_key: HTTP 401 unless the x-api-key header equals API_KEY
require_key(key_ok) == IF key_ok THEN 200 ELSE 401

\* POST /admin/cleanup/run
cleanup_run(key_ok) ==
    /\ Serving
    /\ IF require_key(key_ok) = 200
       THEN SetTables(cleanup_old_sessions(TtlSeconds).tables)
       ELSE UNCHANGED <<conversations, messages, leads>>
    /\ UNCHANGED <<nextId, now, pc, req, resp, task, resolved, call>>

\* DELETE /admin/conversation/{conversation_id}
AdminDeleteConversation(conversation_id, key_ok) ==
    /\ Serving
    /\ IF require_key(key_ok) = 200
       THEN SetTables(delete_conversation(conversation_id).tables)
       ELSE UNCHANGED <<conversations, messages, leads>>
    /\ UNCHANGED <<nextId, now, pc, req, resp, task, resolved, call>>

\* the requests again, with the response of the admin endpoint recorded in
\* `call`: HTTP status, and the ids listed or deleted

AdminCall(fn, key_ok, ttl, status, ids) ==
    [fn |-> fn, key_ok |-> key_ok, ttl |-> ttl, status |-> status, ids |-> ids]

\* the query parameter ttl_seconds is absent
NoTtl == -1

\* SESSION_TTL_SECONDS when the query parameter ttl_seconds is absent
TtlOf(ttl_seconds) == IF ttl_seconds = NoTtl THEN TtlSeconds ELSE ttl_seconds

\* the comparison made on the parsed times
SelectPreviewParsed(convs, cutoff_iso) ==
    {c \in convs : _parse_iso(c.last_activity) < _parse_iso(cutoff_iso)}

\* SELECT id, session_id, last_activity FROM conversations WHERE last_activity < ?
SelectPreview(convs, cutoff_iso) ==
    {c \in convs : TextLess(c.last_activity, cutoff_iso)}

\* cleanup_preview: the rows listed and the tables, which it does not write
cleanup_preview(ttl_seconds) ==
    LET ttl == TtlOf(ttl_seconds)
        cutoff == now - ttl * TicksPerSec
        cutoff_iso == IsoFormat(cutoff)
    IN  [preview |-> {[id |-> c.id, session_id |-> c.session_id,
                       last_activity |-> c.last_activity] :
                          c \in SelectPreview(conversations, cutoff_iso)},
         tables |-> Tables]

\* GET /admin/conversations (the default limit exceeds the rows of the model)
AdminListConversations(key_ok) ==
    /\ Serving
    /\ call' = IF require_key(key_ok) = 200
               THEN AdminCall("list_conversations", key_ok, NoTtl, 200, ConvIds(conversations))
               ELSE AdminCall("list_conversations", key_ok, NoTtl, 401, {})
    /\ UNCHANGED <<conversations, messages, leads, nextId, now, pc, req, resp, task, resolved>>

\* GET /admin/cleanup/preview
AdminCleanupPreview(ttl_seconds, key_ok) ==
    /\ Serving
    /\ IF require_key(key_ok) = 200
       THEN /\ SetTables(cleanup_preview(ttl_seconds).tables)
            /\ call' = AdminCall("cleanup_preview", key_ok, TtlOf(ttl_seconds), 200,
                                 {r.id : r \in cleanup_preview(ttl_seconds).preview})
       ELSE /\ UNCHANGED <<conversations, messages, leads>>
            /\ call' = AdminCall("cleanup_preview", key_ok, TtlOf(ttl_seconds), 401, {})
    /\ UNCHANGED <<nextId, now, pc, req, resp, task, resolved>>

\* POST /admin/cleanup/run
AdminCleanupRun(key_ok) ==
    /\ Serving
    /\ IF require_key(key_ok) = 200
       THEN /\ SetTables(cleanup_old_sessions(TtlSeconds).tables)
            /\ call' = AdminCall("cleanup_run", key_ok, TtlSeconds, 200,
                                 cleanup_old_sessions(TtlSeconds).ids)
       ELSE /\ UNCHANGED <<conversations, messages, leads>>
            /\ call' = AdminCall("cleanup_run", key_ok, TtlSeconds, 401, {})
    /\ UNCHANGED <<nextId, now, pc, req, resp, task, resolved>>

\* DELETE /admin/conversation/{conversation_id}
AdminDelete(conversation_id, key_ok) ==
    /\ Serving
    /\ IF require_key(key_ok) = 200
       THEN /\ SetTables(delete_conversation(conversation_id).tables)
            /\ call' = AdminCall("delete_conversation", key_ok, NoTtl, 200, {conversation_id})
       ELSE /\ UNCHANGED <<conversations, messages, leads>>
            /\ call' = AdminCall("delete_conversation", key_ok, NoTtl, 401, {})
    /\ UNCHANGED <<nextId, now, pc, req, resp, task, resolved>>

----------------------------------------------------------------------------
(* main.py: startup_event, _cleanup_loop, shutdown_event *)

startup_event ==
    /\ task = "none"
    /\ task' = "running"
    /\ UNCHANGED <<conversations, messages, leads, nextId, now, pc, req, resp, resolved, call>>

\* the exception ends the task
AfterSweepErrorStops == "failed"

\* what becomes of the task when cleanup_old_sessions raises: the exception is
\* logged and the loop goes on to its sleep
AfterSweepError == "running"

\* one iteration of _cleanup_loop, from one asyncio.sleep to the next, in which
\* db_service.cleanup_old_sessions() returns
SweepOk ==
    /\ Running /\ pc = "idle"
    /\ SetTables(cleanup_old_sessions(TtlSeconds).tables)
    /\ UNCHANGED <<nextId, now, pc, req, resp, task, resolved, call>>

\* one iteration of _cleanup_loop in which db_service.cleanup_old_sessions() raises
SweepRaise ==
    /\ Running /\ pc = "idle"
    /\ task' = AfterSweepError
    /\ UNCHANGED <<conversations, messages, leads, nextId, now, pc, req, resp, resolved, call>>

shutdown_event ==
    /\ Serving /\ pc = "idle"
    /\ task' = "cancelled"
    /\ UNCHANGED <<conversations, messages, leads, nextId, now, pc, req, resp, resolved, call>>

----------------------------------------------------------------------------

\* every step but the first of a chat request
Others ==
    \/ Tick
    \/ ChatMultipart
    \/ ChatSaveUser
    \/ ChatHistory
    \/ ChatCanned
    \/ \E reply \in LlmReplies : ChatLlmReturn(reply)
    \/ ChatLlmRaise
    \/ ChatSaveReply
    \/ ChatLead
    \/ \E key_ok \in BOOLEAN : cleanup_run(key_ok)
    \/ \E conversation_id \in Ids, key_ok \in BOOLEAN :
          AdminDeleteConversation(conversation_id, key_ok)
    \/ startup_event
    \/ SweepOk
    \/ SweepRaise
    \/ shutdown_event

Next ==
    \/ \E session_id \in Sessions \cup {None}, message_text \in UserTexts, token \in Sessions :
          ChatUpsert(session_id, message_text, token)
    \/ Others

Spec == Init /\ [][Next]_vars

\* the program with the ids returned by upsert_conversation recorded
NextTracked ==
    \/ \E session_id \in Sessions \cup {None}, message_text \in UserTexts, token \in Sessions :
          ChatUpsertTracked(session_id, message_text, token)
    \/ Others

SpecTracked == Init /\ [][NextTracked]_vars

\* uuid4 values one chat request draws at most: conversation, two messages, lead
IdsOfRequest == 4

\* chat requests, the clock and the cleanup loop, without the admin endpoints; a
\* request is taken only when the model has the ids to finish it
LiveNext ==
    \/ Tick
    \/ ChatMultipart
    \/ \E session_id \in Sessions \cup {None}, message_text \in UserTexts, token \in Sessions :
          /\ nextId + IdsOfRequest <= MaxIds
          /\ ChatUpsert(session_id, message_text, token)
    \/ ChatSaveUser
    \/ ChatHistory
    \/ ChatCanned
    \/ \E reply \in LlmReplies : ChatLlmReturn(reply)
    \/ ChatLlmRaise
    \/ ChatSaveReply
    \/ ChatLead
    \/ startup_event
    \/ SweepOk
    \/ SweepRaise
    \/ shutdown_event

\* the LLM call returns or raises (requests.post has a timeout)
LlmCallEnds == ChatLlmRaise \/ \E reply \in LlmReplies : ChatLlmReturn(reply)

\* Fairness: the clock advances; a handler on the event loop runs to its end;
\* `while True` in _cleanup_loop gives a sweep again and again, and a sweep that
\* is attempted infinitely often does not raise every time.
LiveSpec ==
    /\ Init /\ [][LiveNext]_vars
    /\ WF_vars(Tick)
    /\ WF_vars(ChatSaveUser) /\ WF_vars(ChatHistory) /\ WF_vars(ChatCanned)
    /\ WF_vars(LlmCallEnds) /\ WF_vars(ChatSaveReply) /\ WF_vars(ChatLead)
    /\ SF_vars(SweepOk)

\* messages and LLM replies with and without keywords, an e-mail address and
\* a phone number
LeadTexts == { <<"hi">>, <<"thanks">>, <<"contact">>, <<"interested">>, <<"Pricing">>,
               <<"thanks", "email@">> }
LeadReplies == { <<"answer">>, <<"book demo">>, <<"+phone">> }

\* the chat endpoint alone, over LeadTexts and LeadReplies
LeadNext ==
    \/ startup_event
    \/ \E session_id \in Sessions \cup {None}, message_text \in LeadTexts, token \in Sessions :
          ChatUpsert(session_id, message_text, token)
    \/ ChatSaveUser
    \/ ChatHistory
    \/ ChatCanned
    \/ \E reply \in LeadReplies : ChatLlmReturn(reply)
    \/ ChatLlmRaise
    \/ ChatSaveReply
    \/ ChatLead

LeadSpec == Init /\ [][LeadNext]_vars

\* the messages of n earlier requests of one conversation, one message a second,
\* the last one a second before the model's clock starts; their ids were drawn
\* before the model's ids
EarlierMessages(cid, n) ==
    [k \in 1..(2 * n) |->
        [id |-> 0 - k, conversation_id |-> cid,
         role |-> IF k % 2 = 1 THEN "user" ELSE "assistant",
         text |-> IF k % 2 = 1 THEN <<"thanks">>
                  ELSE IF k = 2 THEN greeting \o <<"answer">> ELSE <<"answer">>,
         file_url |-> None,
         created_at |-> IsoFormat((k - 2 * n - 1) * TicksPerSec)]]

\* the store after 1 .. PromptHistory / 2 earlier chat requests of session "s1"
PromptInit ==
    /\ \E n \in 1..(PromptHistory \div 2) :
          /\ messages = EarlierMessages(1, n)
          /\ conversations = {[id |-> 1, session_id |-> "s1", title |-> "Chat",
                               created_at |-> IsoFormat((0 - 2 * n) * TicksPerSec),
                               last_activity |-> IsoFormat(0 - TicksPerSec)]}
    /\ leads = {}
    /\ nextId = 1
    /\ now = 0
    /\ pc = "idle"
    /\ req = NoReq
    /\ resp = NoResp
    /\ task = "none"
    /\ resolved = [s \in Sessions |-> NoId]
    /\ call = NoCall

\* the chat endpoint alone
PromptNext ==
    \/ startup_event
    \/ \E session_id \in Sessions \cup {None}, message_text \in UserTexts, token \in Sessions :
          ChatUpsert(session_id, message_text, token)
    \/ ChatSaveUser
    \/ ChatHistory
    \/ ChatCanned
    \/ \E reply \in LlmReplies : ChatLlmReturn(reply)
    \/ ChatLlmRaise
    \/ ChatSaveReply
    \/ ChatLead

PromptSpec == PromptInit /\ [][PromptNext]_vars

\* the chat endpoint, the clock and the admin endpoints with their responses
AdminNext ==
    \/ startup_event
    \/ Tick
    \/ \E session_id \in Sessions \cup {None}, message_text \in {<<"pricing">>}, token \in Sessions :
          ChatUpsert(session_id, message_text, token)
    \/ ChatSaveUser
    \/ ChatHistory
    \/ \E reply \in LlmReplies : ChatLlmReturn(reply)
    \/ ChatSaveReply
    \/ ChatLead
    \/ \E key_ok \in BOOLEAN : AdminListConversations(key_ok)
    \/ \E ttl_seconds \in {NoTtl, 0}, key_ok \in BOOLEAN : AdminCleanupPreview(ttl_seconds, key_ok)
    \/ \E key_ok \in BOOLEAN : AdminCleanupRun(key_ok)
    \/ \E conversation_id \in Ids, key_ok \in BOOLEAN : AdminDelete(conversation_id, key_ok)

AdminSpec == Init /\ [][AdminNext]_vars

----------------------------------------------------------------------------
(* rag_router.find_relevant_chunks over a knowledge base *)

\* the elements of a sequence
Range(seq) == {seq[i] : i \in 1..Len(seq)}

\* sequences over S of length 0..n
SeqsUpTo(S, n) == UNION {[1..k -> S] : k \in 0..n}

\* entries of the knowledge base: the text of the entry, and whether the tokens
\* of the query match it
KbEntries(bodies) == [body : bodies, hit : BOOLEAN]

\* the snippets of the entries that match, in the order of the entries
Matched(kind, entries) ==
    LET hits == SelectSeq(entries, LAMBDA e : e.hit)
    IN  [i \in 1..Len(hits) |-> <<kind, hits[i].body>>]

\* "dedupe & clamp": the loop over snippets from index i on, with out so far
RECURSIVE DedupeClamp(_, _, _, _)
DedupeClamp(snippets, i, out, max_chunks) ==
    IF i > Len(snippets) THEN out
    ELSE LET s == snippets[i]
             out2 == IF s \notin Range(out) THEN Append(out, s) ELSE out
         IN  IF Len(out2) >= max_chunks THEN out2
             ELSE DedupeClamp(snippets, i + 1, out2, max_chunks)

\* the snippets matched: services (data["services"], then core_services), FAQs,
\* sales material
MatchedSnippets(data) ==
    Matched("Service", data.services) \o Matched("FAQ", data.faqs)
        \o (IF data.sales = "hit" THEN <<<<"Sales", "hero">>>> ELSE <<>>)

company_summary == <<"Company summary", "short_bio">>

\* find_relevant_chunks(text, max_chunks) over the knowledge base `data`
find_relevant_chunks(data, text_empty, max_chunks) ==
    IF ~data.loaded THEN <<>>
    ELSE IF text_empty THEN (IF data.summary THEN <<company_summary>> ELSE <<>>)
    ELSE LET out == DedupeClamp(MatchedSnippets(data), 1, <<>>, max_chunks)
         IN  IF out = <<>> /\ data.summary THEN <<company_summary>> ELSE out

\* knowledge bases: whether the file loads, services, FAQs, sales material
\* (absent, matching, not matching), whether the company has a summary
KnowledgeBases ==
    [loaded : BOOLEAN,
     services : SeqsUpTo(KbEntries({"a", "b"}), MaxEntries),
     faqs : SeqsUpTo(KbEntries({"a"}), MaxEntries),
     sales : {"none", "hit", "miss"},
     summary : BOOLEAN]

ChunkInit ==
    /\ EmptyStore
    /\ call \in [fn : {"find_relevant_chunks"}, data : KnowledgeBases,
                  text_empty : BOOLEAN, max_chunks : 0..DefaultMaxChunks,
                  out : {<<>>}, done : {FALSE}]

\* the call returns
FindRelevantChunks ==
    /\ call.fn = "find_relevant_chunks" /\ ~call.done
    /\ call' = [call EXCEPT
                  !.out = find_relevant_chunks(call.data, call.text_empty, call.max_chunks),
                  !.done = TRUE]
    /\ UNCHANGED <<conversations, messages, leads, nextId, now, pc, req, resp, task, resolved>>

ChunkNext == FindRelevantChunks

ChunkSpec == ChunkInit /\ [][ChunkNext]_vars

----------------------------------------------------------------------------
(* main.py (the /ask application): ask_question over rag_chain.qa_chain *)

\* what a question is made of: blanks, and words in lower and in upper case
Chars == {" ", "hi", "HI", "bye"}

\* the exact matches answered without the chain
INSTANT_QA == (<<"hi">> :> "Hello!") @@ (<<"bye">> :> "Goodbye!")

\* str.strip() left out
strip_none(str) == str

\* str.strip(): leading and trailing whitespace removed
RECURSIVE strip(_)
strip(str) ==
    IF str = <<>> THEN str
    ELSE IF Head(str) = " " THEN strip(Tail(str))
    ELSE IF str[Len(str)] = " " THEN strip(SubSeq(str, 1, Len(str) - 1))
    ELSE str

\* str.lower()
str_lower(str) == [i \in 1..Len(str) |-> IF str[i] = "HI" THEN "hi" ELSE str[i]]

\* what qa_chain does: it returns an answer, returns that it has no
\* information, or raises
ChainOutcomes == {"answer", "no information", "raise"}

AskResp(status, type, answer) == [status |-> status, type |-> type, answer |-> answer]

\* POST /ask: the response, and the chat history passed to qa_chain when it is
\* invoked
ask_question(raw, outcome) ==
    LET question == strip(raw)
        question_lower == str_lower(question)
        current_chat_history == <<>>
    IN  IF question_lower \in DOMAIN INSTANT_QA
        THEN [resp |-> AskResp(200, "instant", INSTANT_QA[question_lower]),
              invoked |-> FALSE, question |-> question, chat_history |-> <<>>]
        ELSE [resp |-> IF outcome = "raise" THEN AskResp(500, "unhandled_error", "Apologies")
                       ELSE IF outcome = "no information" THEN AskResp(200, "no_info", "rephrase")
                       ELSE AskResp(200, "rag", outcome),
              invoked |-> TRUE, question |-> question,
              chat_history |-> current_chat_history]

AskInit ==
    /\ EmptyStore
    /\ call = [fn |-> "ask_question", served |-> 0, raw |-> <<>>,
               resp |-> AskResp(0, "none", "none"),
               chain_calls |-> 0, chain_history |-> <<>>]

\* one request to /ask
AskQuestion(raw, outcome) ==
    /\ call.fn = "ask_question"
    /\ call.served < MaxAsks
    /\ LET r == ask_question(raw, outcome)
       IN  call' = [call EXCEPT
                      !.served = @ + 1,
                      !.raw = raw,
                      !.resp = r.resp,
                      !.chain_calls = IF r.invoked THEN @ + 1 ELSE @,
                      !.chain_history = IF r.invoked THEN r.chat_history ELSE @]
    /\ UNCHANGED <<conversations, messages, leads, nextId, now, pc, req, resp, task, resolved>>

AskNext ==
    \E raw \in SeqsUpTo(Chars, MaxQuestionLen), outcome \in ChainOutcomes :
        AskQuestion(raw, outcome)

AskSpec == AskInit /\ [][AskNext]_vars

----------------------------------------------------------------------------
(* pdf_processor.chunk_text_by_words, statement by statement *)

\* a text is a sequence of tokens: a word, or a run of whitespace
Tokens == {" ", "a", "b"}

\* str.split(): the words between whitespace
split(text) == SelectSeq(text, LAMBDA t : t # " ")

\* the window moved without overlap
NextStartAtEnd(end, overlap) == end

\* i = end - overlap; if i < 0: i = 0
NextStart(end, overlap) == Max(end - overlap, 0)

ChunkTextInit ==
    /\ EmptyStore
    /\ call \in [fn : {"chunk_text_by_words"},
                  text : SeqsUpTo(Tokens, MaxTextLen),
                  chunk_size : (0 - 1)..MaxChunkSize,
                  overlap : 0..MaxChunkSize,
                  at : {"start"}, words : {<<>>}, i : {0}, chunks : {<<>>},
                  more : {0}]

\* from the call to the loop: the early returns
ChunkTextStart ==
    /\ call.fn = "chunk_text_by_words" /\ call.at = "start"
    /\ call' = IF call.text = <<>>
               THEN [call EXCEPT !.at = "returned"]
               ELSE IF call.chunk_size <= 0
               THEN [call EXCEPT !.words = split(call.text),
                                 !.chunks = <<split(call.text)>>,
                                 !.at = "returned"]
               ELSE [call EXCEPT !.words = split(call.text), !.at = "while"]
    /\ UNCHANGED <<conversations, messages, leads, nextId, now, pc, req, resp, task, resolved>>

\* the test of the while loop and one pass through its body; the model keeps
\* the first MaxLoop chunks of the list, and of the chunks appended after them
\* whether their number is even or odd
ChunkTextIterate ==
    /\ call.fn = "chunk_text_by_words" /\ call.at = "while"
    /\ LET n == Len(call.words)
           end == Min(call.i + call.chunk_size, n)
       IN  call' = IF ~(call.i < n)
                   THEN [call EXCEPT !.at = "returned"]
                   ELSE [call EXCEPT
                           !.chunks = IF Len(@) < MaxLoop
                                      THEN Append(@, SubSeq(call.words, call.i + 1, end))
                                      ELSE @,
                           !.more = IF Len(call.chunks) < MaxLoop THEN @ ELSE 1 - @,
                           !.i = IF end = n THEN @ ELSE NextStart(end, call.overlap),
                           !.at = IF end = n THEN "returned" ELSE "while"]
    /\ UNCHANGED <<conversations, messages, leads, nextId, now, pc, req, resp, task, resolved>>

ChunkTextNext == ChunkTextStart \/ ChunkTextIterate

\* the interpreter keeps executing the function
ChunkTextSpec ==
    ChunkTextInit /\ [][ChunkTextNext]_vars /\ WF_vars(ChunkTextNext)

----------------------------------------------------------------------------
(* pdf_processor.ingest_pdf_bytes over vector_store.parse_pdf, ocr_image and *)
(* upsert_chunks                                                           *)

\* the loop of chunk_text_by_words from window start i on, for
\* chunk_size > overlap
RECURSIVE chunk_words(_, _, _, _)
chunk_words(words, i, chunk_size, overlap) ==
    LET n == Len(words)
        end == Min(i + chunk_size, n)
    IN  IF ~(i < n) THEN <<>>
        ELSE IF end = n THEN <<SubSeq(words, i + 1, end)>>
        ELSE <<SubSeq(words, i + 1, end)>>
                \o chunk_words(words, NextStart(end, overlap), chunk_size, overlap)

\* chunk_text_by_words(text, chunk_size, overlap), for chunk_size > overlap
chunk_text_by_words(text, chunk_size, overlap) ==
    IF text = <<>> THEN <<>>
    ELSE IF chunk_size <= 0 THEN <<split(text)>>
    ELSE chunk_words(split(text), 0, chunk_size, overlap)

\* what parse_pdf and ocr_image do with the bytes: raise, or return a text
Extractions ==
    [raised : {TRUE}, text : {<<>>}] \cup
    [raised : {FALSE}, text : SeqsUpTo(Tokens, MaxPdfTokens)]

NoResult == [inserted |-> 0, chunks |-> 0, error |-> None]

IngestInit ==
    /\ EmptyStore
    /\ call \in [fn : {"ingest_pdf_bytes"},
                  parse : Extractions, ocr : Extractions, embed_ok : BOOLEAN,
                  at : {"parse_pdf"}, text : {<<>>}, ocr_called : {FALSE},
                  result : {NoResult}, vectors : {<<>>}]

\* text = parse_pdf(data)
IngestParse ==
    /\ call.fn = "ingest_pdf_bytes" /\ call.at = "parse_pdf"
    /\ call' = IF call.parse.raised
               THEN [call EXCEPT !.at = "ocr_image"]
               ELSE [call EXCEPT !.text = call.parse.text,
                                 !.at = "check"]
    /\ UNCHANGED <<conversations, messages, leads, nextId, now, pc, req, resp, task, resolved>>

\* the except branch: ocr_text = ocr_image(data)
IngestOcr ==
    /\ call.fn = "ingest_pdf_bytes" /\ call.at = "ocr_image"
    /\ call' = [call EXCEPT
                  !.ocr_called = TRUE,
                  !.text = IF ~call.ocr.raised /\ call.ocr.text # <<>>
                           THEN call.ocr.text ELSE @,
                  !.at = "check"]
    /\ UNCHANGED <<conversations, messages, leads, nextId, now, pc, req, resp, task, resolved>>

\* the test of the text, chunking and upsert_chunks, which raises when the
\* embedding request fails
IngestChunks ==
    /\ call.fn = "ingest_pdf_bytes" /\ call.at = "check"
    /\ LET chunks == chunk_text_by_words(call.text, IngestChunkSize, IngestOverlap)
       IN  call' = IF call.text = <<>> \/ strip(call.text) = <<>>
                   THEN [call EXCEPT
                           !.result = [inserted |-> 0, chunks |-> 0,
                                       error |-> "no text extracted"],
                           !.at = "returned"]
                   ELSE IF chunks = <<>>
                   THEN [call EXCEPT !.result = NoResult, !.at = "returned"]
                   ELSE IF ~call.embed_ok
                   THEN [call EXCEPT !.at = "raised"]
                   ELSE [call EXCEPT
                           !.vectors = @ \o chunks,
                           !.result = [inserted |-> Len(chunks), chunks |-> Len(chunks),
                                       error |-> None],
                           !.at = "returned"]
    /\ UNCHANGED <<conversations, messages, leads, nextId, now, pc, req, resp, task, resolved>>

IngestNext == IngestParse \/ IngestOcr \/ IngestChunks

IngestSpec == IngestInit /\ [][IngestNext]_vars

----------------------------------------------------------------------------
(* vector_store.get_chroma_client, called by upsert_chunks and search under  *)
(* `with _lock`                                                              *)

\* worker threads that call upsert_chunks or search
Threads == {1, 2}

\* None, where objects are numbered from 1 in the order they are created
NoObject == 0

\* the lock taken although another thread holds it
LockIgnored == TRUE

\* _lock can be acquired
LockFree == call.lock = 0

\* what the call returns as collection when a backend is set
Backend ==
    IF call.in_memory_store # NoObject THEN call.in_memory_store ELSE call.collection

BackendInit ==
    /\ EmptyStore
    /\ call \in [fn : {"get_chroma_client"},
                  chromadb_imported : BOOLEAN,
                  lock : {0},
                  at : {[t \in Threads |-> "idle"]},
                  client : {[t \in Threads |-> NoObject]},
                  returned : {[t \in Threads |-> NoObject]},
                  chroma_client : {NoObject}, collection : {NoObject},
                  in_memory_store : {NoObject},
                  objects : {0}, calls : {0}]

\* upsert_chunks or search enters `with _lock` and calls get_chroma_client
BackendAcquire(t) ==
    /\ call.fn = "get_chroma_client" /\ call.at[t] = "idle"
    /\ call.calls < MaxCalls
    /\ LockFree
    /\ call' = [call EXCEPT !.lock = t, !.at[t] = "test", !.calls = @ + 1,
                            !.returned[t] = NoObject]
    /\ UNCHANGED <<conversations, messages, leads, nextId, now, pc, req, resp, task, resolved>>

\* the test of the three globals; the early return
BackendTest(t) ==
    /\ call.fn = "get_chroma_client" /\ call.at[t] = "test"
    /\ call' = IF \/ call.chroma_client # NoObject
                  \/ call.collection # NoObject
                  \/ call.in_memory_store # NoObject
               THEN [call EXCEPT !.returned[t] = Backend, !.at[t] = "release"]
               ELSE IF call.chromadb_imported
               THEN [call EXCEPT !.at[t] = "client"]
               ELSE [call EXCEPT !.at[t] = "fallback"]
    /\ UNCHANGED <<conversations, messages, leads, nextId, now, pc, req, resp, task, resolved>>

\* chromadb.Client(Settings(...)), then chromadb.Client(): one of them returns
\* a client, or both raise
BackendClient(t, ok) ==
    /\ call.fn = "get_chroma_client" /\ call.at[t] = "client"
    /\ call' = IF ok
               THEN [call EXCEPT !.objects = @ + 1, !.client[t] = call.objects + 1,
                                 !.at[t] = "collection"]
               ELSE [call EXCEPT !.at[t] = "fallback"]
    /\ UNCHANGED <<conversations, messages, leads, nextId, now, pc, req, resp, task, resolved>>

\* get_collection / create_collection: the collection is set and returned, or
\* both raise
BackendCollection(t, ok) ==
    /\ call.fn = "get_chroma_client" /\ call.at[t] = "collection"
    /\ call' = IF ok
               THEN [call EXCEPT !.objects = @ + 1,
                                 !.chroma_client = call.client[t],
                                 !.collection = call.objects + 1,
                                 !.returned[t] = call.objects + 1,
                                 !.client[t] = NoObject,
                                 !.at[t] = "release"]
               ELSE [call EXCEPT !.client[t] = NoObject, !.at[t] = "fallback"]
    /\ UNCHANGED <<conversations, messages, leads, nextId, now, pc, req, resp, task, resolved>>

\* the final fallback: a new in-memory store is set and returned
BackendFallback(t) ==
    /\ call.fn = "get_chroma_client" /\ call.at[t] = "fallback"
    /\ call' = [call EXCEPT !.objects = @ + 1,
                            !.in_memory_store = call.objects + 1,
                            !.returned[t] = call.objects + 1,
                            !.at[t] = "release"]
    /\ UNCHANGED <<conversations, messages, leads, nextId, now, pc, req, resp, task, resolved>>

\* the caller leaves `with _lock`
BackendRelease(t) ==
    /\ call.fn = "get_chroma_client" /\ call.at[t] = "release"
    /\ call' = [call EXCEPT !.lock = 0, !.at[t] = "idle"]
    /\ UNCHANGED <<conversations, messages, leads, nextId, now, pc, req, resp, task, resolved>>

BackendNext ==
    \E t \in Threads :
        \/ BackendAcquire(t)
        \/ BackendTest(t)
        \/ \E ok \in BOOLEAN : BackendClient(t, ok)
        \/ \E ok \in BOOLEAN : BackendCollection(t, ok)
        \/ BackendFallback(t)
        \/ BackendRelease(t)

BackendSpec == BackendInit /\ [][BackendNext]_vars

----------------------------------------------------------------------------
(* chat_endpoint on a long conversation *)

\* the store after 1 .. HistoryLimit / 2 + 1 earlier chat requests of session
\* "s1": the first reply carries the canonical greeting
GreetInit ==
    /\ \E n \in 1..(HistoryLimit \div 2 + 1) :
          /\ messages = EarlierMessages(1, n)
          /\ conversations = {[id |-> 1, session_id |-> "s1", title |-> "Chat",
                               created_at |-> IsoFormat((0 - 2 * n) * TicksPerSec),
                               last_activity |-> IsoFormat(0 - TicksPerSec)]}
    /\ leads = {}
    /\ nextId = 1
    /\ now = 0
    /\ pc = "idle"
    /\ req = NoReq
    /\ resp = NoResp
    /\ task = "none"
    /\ resolved = [s \in Sessions |-> NoId]
    /\ call = NoCall

\* the chat endpoint alone
GreetNext ==
    \/ startup_event
    \/ \E session_id \in Sessions \cup {None}, message_text \in UserTexts, token \in Sessions :
          ChatUpsert(session_id, message_text, token)
    \/ ChatSaveUser
    \/ ChatHistory
    \/ ChatCanned
    \/ \E reply \in LlmReplies : ChatLlmReturn(reply)
    \/ ChatLlmRaise
    \/ ChatSaveReply
    \/ ChatLead

GreetSpec == GreetInit /\ [][GreetNext]_vars

----------------------------------------------------------------------------
(* Properties *)

\* C1: no two stored conversations carry the same session token.
SessionTokenUnique ==
    \A c1, c2 \in conversations : c1.session_id = c2.session_id => c1 = c2

\* two conversations are stored, so two session tokens were taken
TwoConversationsStored == Cardinality(conversations) = 2

\* C2 as stated: two calls of upsert_conversation with the same non-empty
\* session id return the same conversation id, whatever runs between them.
SessionAlwaysSameConversation ==
    [][\A s \in Sessions : resolved[s] # NoId => resolved'[s] = resolved[s]]_vars

\* C2 as amended: two calls of upsert_conversation with the same non-empty
\* session id return the same conversation id when the conversation the first
\* returned is still stored at the second call.
SessionSameConversationWhileStored ==
    [][\A s \in Sessions :
          (resolved[s] # NoId /\ ConvExists(resolved[s])) => resolved'[s] = resolved[s]]_vars

\* a later request of a session was given the conversation an earlier request
\* of that session wrote its message to
SecondCallSameConversation ==
    /\ pc = "save_user"
    /\ req.session_id \in Sessions
    /\ resolved[req.session_id] = req.conversation_id
    /\ ConvExists(req.conversation_id)
    /\ Len(MessagesOf(messages, req.conversation_id)) >= 1

\* C3: the conversation_id of every stored lead is the id of a stored conversation.
LeadReferencesConversation ==
    \A l \in leads : ConvExists(l.conversation_id)

\* one step keeps message m, or deletes everything of m's conversation
KeptOrCascaded(m) ==
    \/ m \in MessageSet(messages')
    \/ /\ m.conversation_id \notin ConvIds(conversations')
       /\ \A x \in MessageSet(messages') : x.conversation_id # m.conversation_id
       /\ \A l \in leads' : l.conversation_id # m.conversation_id

\* C4: a written message is never changed; the messages a step keeps stay as
\* they are and in their order, new ones are appended after them, and a message
\* leaves the store only when its conversation is deleted with all its rows.
MessagesImmutable ==
    [][LET kept == SelectSeq(messages, LAMBDA m : m \in MessageSet(messages'))
       IN  /\ Len(messages') >= Len(kept)
           /\ SubSeq(messages', 1, Len(kept)) = kept
           /\ \A i \in 1..Len(messages) : KeptOrCascaded(messages[i])
           /\ \A i, j \in 1..Len(messages') :
                 messages'[i].id = messages'[j].id => i = j]_vars

\* a message is stored beside a conversation that is not its own
MessageOfOtherConversation ==
    \E i \in 1..Len(messages) :
        /\ ConvExists(messages[i].conversation_id)
        /\ \E c \in conversations : c.id # messages[i].conversation_id

\* the last k messages of a conversation in the order save_message wrote them
LastSaved(conversation_id, limit) ==
    LET rows == MessagesOf(messages, conversation_id)
        k == Min(limit, Len(rows))
    IN  [i \in 1..k |-> [role |-> rows[Len(rows) - k + i].role,
                         text |-> rows[Len(rows) - k + i].text,
                         created_at |-> rows[Len(rows) - k + i].created_at]]

\* C5: get_last_messages returns the min(limit, n) most recently saved messages
\* of the conversation, oldest first.
LastMessagesOldestFirst ==
    \A cid \in Ids, limit \in 1..MaxIds :
        \A r \in get_last_messages(cid, limit) : r = LastSaved(cid, limit)

\* the conversations whose last activity is older than now - ttl
OlderThanTtl(ttl_seconds) ==
    {c.id : c \in {x \in conversations :
                      _parse_iso(x.last_activity) < now - ttl_seconds * TicksPerSec}}

\* C6: cleanup_old_sessions deletes exactly the conversations whose last
\* activity is older than now - ttl, with their messages and leads, returns
\* their ids, and leaves the rest unchanged.
CleanupDeletesExactlyExpired ==
    LET r == cleanup_old_sessions(TtlSeconds)
        old == OlderThanTtl(TtlSeconds)
    IN  /\ r.ids = old
        /\ r.tables.convs = {c \in conversations : c.id \notin old}
        /\ r.tables.msgs = SelectSeq(messages, LAMBDA m : m.conversation_id \notin old)
        /\ r.tables.leads = {l \in leads : l.conversation_id \notin old}

\* last-activity times whose TTL runs out, also as text, before the clock stops
LiveTimes ==
    {t \in 0..MaxTime :
        t \div TicksPerSec < (MaxTime - TtlSeconds * TicksPerSec) \div TicksPerSec}

\* C7: between startup and shutdown every conversation that receives no further
\* activity is eventually deleted by the cleanup loop, also when sweeps raise.
SweepEventuallyDeletes ==
    \A i \in Ids : \A t \in LiveTimes :
        (Serving /\ ConvExists(i) /\ _parse_iso(ConvOf(i).last_activity) = t)
            ~> (\/ ~Serving
                \/ ~ConvExists(i)
                \/ _parse_iso(ConvOf(i).last_activity) # t)

\* a conversation was created and the loop has deleted it
SweptConversation ==
    /\ Serving
    /\ nextId >= 1
    /\ conversations = {}

\* C8: delete_conversation(c) removes conversation c and the messages and leads
\* of c, leaves the rest unchanged and returns True; when c is not stored the
\* store is unchanged.
DeleteConversationFrame ==
    \A c \in Ids :
        LET r == delete_conversation(c)
        IN  /\ r.ret = TRUE
            /\ r.tables.convs = {x \in conversations : x.id # c}
            /\ r.tables.msgs = SelectSeq(messages, LAMBDA m : m.conversation_id # c)
            /\ r.tables.leads = {l \in leads : l.conversation_id # c}
            /\ ~ConvExists(c) => r.tables = Tables

\* last_activity is not earlier than the creation of the conversation or of
\* any of its messages
LastActivityNotEarlier ==
    \A c \in conversations :
        /\ _parse_iso(c.last_activity) >= _parse_iso(c.created_at)
        /\ \A i \in 1..Len(messages) :
              messages[i].conversation_id = c.id
                  => _parse_iso(c.last_activity) >= _parse_iso(messages[i].created_at)

\* the step is an upsert_conversation or a save_message on a stored
\* conversation, and leaves its last_activity at the time of the call
TouchedOnCall ==
    /\ (pc = "idle" /\ pc' = "save_user")
          => \E c \in conversations' :
                c.id = req'.conversation_id /\ c.last_activity = _now
    /\ (Len(messages') > Len(messages))
          => \A c \in conversations' :
                c.id = messages'[Len(messages')].conversation_id
                    => c.last_activity = _now

\* C9: every upsert_conversation and every save_message on a conversation sets
\* its last_activity to the time of the call, and last_activity is never
\* earlier than the creation of the conversation or of any of its messages.
LastActivityUpdated == [][TouchedOnCall /\ LastActivityNotEarlier']_vars

\* a message written after the creation of its conversation moved last_activity
LastActivityMoved ==
    \E c \in conversations : \E i \in 1..Len(messages) :
        /\ messages[i].conversation_id = c.id
        /\ _parse_iso(messages[i].created_at) > _parse_iso(c.created_at)
        /\ c.last_activity = messages[i].created_at

\* C10: when the LLM call of a chat request raises, the handler does not call
\* again and answers 500; it writes no message and no lead, and the
\* conversation and the user message it wrote stay as they are.
LlmErrorEndsRequest ==
    [][(/\ pc = "respond"
        /\ CannedReply = <<>>
        /\ <<pc, req>>' # <<pc, req>>
        /\ pc' # "save_reply")
          => /\ pc' = "idle"
             /\ req.llm_calls = 0
             /\ resp'.status = 500
             /\ UNCHANGED <<conversations, messages, leads>>]_vars

\* the request ended with 500 and its conversation and user message are stored
LlmErrorAnswered ==
    /\ pc = "idle"
    /\ resp.status = 500
    /\ leads = {}
    /\ Len(messages) = 1
    /\ messages[1].role = "user"
    /\ ConvExists(messages[1].conversation_id)

\* the weights of the keyword patterns that match the text
MatchedWeights(text) ==
    {w \in {WDemo, WPrice, WInterested, WContact, WSchedule} :
        \/ w = WDemo /\ HasAny(text, {"demo", "schedule demo", "book demo"})
        \/ w = WPrice /\ HasAny(text, {"price", "pricing", "cost", "quote"})
        \/ w = WInterested /\ HasAny(text, {"interested", "want to buy", "purchase",
                                             "signup", "sign up", "get started"})
        \/ w = WContact /\ HasAny(text, {"contact", "call me", "reach out", "connect"})
        \/ w = WSchedule /\ HasAny(text, {"schedule", "meeting", "request demo"})}

\* the largest matching weight (0 when none matches), at least WContactInfo
\* when the text holds an e-mail address or a phone number
CombinedScore(text) ==
    LET ws == MatchedWeights(Lower(text)) \cup {0} \cup
                (IF HasAny(text, {"email@", "+phone"}) THEN {WContactInfo} ELSE {})
    IN  CHOOSE w \in ws : \A v \in ws : v <= w

\* C11: in the LLM flow a lead is created exactly when the combined score of
\* user message and assistant reply reaches LEAD_THRESHOLD, and the lead stores
\* that score; below the threshold no lead is created.
LeadExactlyAtThreshold ==
    [][(pc = "lead" /\ pc' = "idle")
          => LET score == CombinedScore(req.message_text \o req.reply)
             IN  IF score >= LEAD_THRESHOLD
                 THEN /\ resp'.is_lead
                      /\ \E l \in leads' \ leads :
                            /\ leads' = leads \cup {l}
                            /\ l.score = score
                            /\ l.conversation_id = req.conversation_id
                 ELSE ~resp'.is_lead /\ leads' = leads]_vars

\* a lead whose score comes from the reply alone is stored
LeadFromReplyStored ==
    \E l \in leads : l.score = WDemo /\ compute_interest_score(Lower(l.interest)) = 0

\* C12: the history placed in the LLM prompt is the (at most PromptHistory)
\* most recent messages of the conversation, oldest first, and its last
\* message is the user message of the current request; stated for requests
\* whose get_last_messages call returned the messages in the order they were
\* saved.
PromptHistoryRecent ==
    (/\ pc = "respond"
     /\ CannedReply = <<>>
     /\ req.recent_history = LastSaved(req.conversation_id, HistoryLimit))
        => /\ history = LastSaved(req.conversation_id, PromptHistory)
           /\ history # <<>>
           /\ history[Len(history)].role = "user"
           /\ history[Len(history)].text = req.message_text
           /\ history[Len(history)].created_at = _now

\* seq keeps some of the elements of full, in their order
RECURSIVE IsSubsequence(_, _)
IsSubsequence(seq, full) ==
    IF seq = <<>> THEN TRUE
    ELSE IF full = <<>> THEN FALSE
    ELSE IF Head(seq) = Head(full) THEN IsSubsequence(Tail(seq), Tail(full))
    ELSE IsSubsequence(seq, Tail(full))

\* C13: for every query, knowledge base and max_chunks >= 0,
\* find_relevant_chunks returns at most max_chunks snippets, pairwise distinct,
\* in the order in which they were matched.
ChunksAtMostMax ==
    (call.fn = "find_relevant_chunks" /\ call.done)
        => /\ Len(call.out) <= call.max_chunks
           /\ \A i, j \in 1..Len(call.out) : call.out[i] = call.out[j] => i = j
           /\ \/ IsSubsequence(call.out, MatchedSnippets(call.data))
              \/ call.out = <<company_summary>>

\* the same for max_chunks >= 1
ChunksAtMostPositiveMax ==
    (call.fn = "find_relevant_chunks" /\ call.done /\ call.max_chunks >= 1)
        => /\ Len(call.out) <= call.max_chunks
           /\ \A i, j \in 1..Len(call.out) : call.out[i] = call.out[j] => i = j
           /\ \/ IsSubsequence(call.out, MatchedSnippets(call.data))
              \/ call.out = <<company_summary>>

\* C14: cleanup_preview leaves every conversation, message and lead unchanged,
\* and the conversations it lists are those cleanup_old_sessions would delete
\* with the same TTL at the same instant.
PreviewListsWhatCleanupDeletes ==
    [][(call' # call /\ call'.fn = "cleanup_preview" /\ call'.status = 200)
          => /\ UNCHANGED <<conversations, messages, leads>>
             /\ call'.ids = cleanup_old_sessions(call'.ttl).ids
             /\ call'.ids = ConvIds(conversations)
                                \ ConvIds(cleanup_old_sessions(call'.ttl).tables.convs)]_vars

\* a preview listed a conversation, which is still stored
PreviewListedStored ==
    /\ call.fn = "cleanup_preview"
    /\ call.ids # {}
    /\ call.ids \subseteq ConvIds(conversations)

\* upsert_conversation(session_id) found the conversation that carries
\* session_id: no row is created, its id and session id are returned, and no
\* other conversation is changed
UpsertGot(r, session_id) ==
    /\ ~r.raised
    /\ ConvIds(r.convs) = ConvIds(conversations)
    /\ Cardinality(r.convs) = Cardinality(conversations)
    /\ r.session_id = session_id
    /\ \E c \in conversations : c.session_id = session_id /\ c.id = r.id
    /\ \A c \in conversations : c.id # r.id => c \in r.convs

\* upsert_conversation created exactly one conversation, which carries
\* session_id, and changed no other
UpsertCreated(r, session_id) ==
    /\ ~r.raised
    /\ r.id \notin ConvIds(conversations)
    /\ r.session_id = session_id
    /\ \E n \in r.convs :
          /\ n.id = r.id /\ n.session_id = session_id
          /\ r.convs = conversations \cup {n}

\* session_id is carried by a stored conversation
Carried(session_id) == \E c \in conversations : c.session_id = session_id

Trimmed(raw) ==
    LET nb == {i \in 1..Len(raw) : raw[i] # " "}
    IN  IF nb = {} THEN <<>>
        ELSE LET lo == CHOOSE i \in nb : \A j \in nb : i <= j
                 hi == CHOOSE i \in nb : \A j \in nb : j <= i
             IN  [k \in 1..(hi - lo + 1) |->
                     IF raw[lo + k - 1] = "HI" THEN "hi" ELSE raw[lo + k - 1]]

\* C16: when the stripped, lower-cased question is a key of INSTANT_QA the
\* response is that fixed answer with type "instant" and the chain is not
\* invoked; for every other question the chain is invoked exactly once, with
\* an empty chat history.
AskInstantOrChainOnce ==
    [][(call.fn = "ask_question" /\ call'.served = call.served + 1)
          => IF Trimmed(call'.raw) \in DOMAIN INSTANT_QA
             THEN /\ call'.resp = AskResp(200, "instant", INSTANT_QA[Trimmed(call'.raw)])
                  /\ call'.chain_calls = call.chain_calls
             ELSE /\ call'.chain_calls = call.chain_calls + 1
                  /\ call'.chain_history = <<>>
                  /\ call'.resp.type # "instant"]_vars

\* a question written with blanks and capitals was answered at once, after the
\* chain had answered another
AskedInstantAfterChain ==
    /\ call.fn = "ask_question"
    /\ call.chain_calls = 1
    /\ call.served = 2
    /\ call.raw = <<" ", "HI", " ">>
    /\ call.resp.type = "instant"

\* C17: a chat request with content type multipart/form-data is answered with
\* HTTP 400 before any persistence call: no conversation is created or
\* touched, no message or lead is written, and the LLM is not called.
MultipartRejectedFirst ==
    [][(resp'.status = 400 /\ resp' # resp)
          => /\ pc = "idle"
             /\ UNCHANGED <<conversations, messages, leads, nextId, pc, req>>]_vars

\* a multipart request was rejected while a conversation with a message is stored
MultipartRejected ==
    /\ resp.status = 400
    /\ pc = "idle"
    /\ \E c \in conversations : MessagesOf(messages, c.id) # <<>>

\* C18: an admin request whose x-api-key header is missing or differs from
\* API_KEY is answered with HTTP 401 and leaves conversations, messages and
\* leads unchanged; a request with the key is let through.
AdminNeedsKey ==
    [][(call' # call /\ call'.fn \in {"list_conversations", "cleanup_preview",
                                       "cleanup_run", "delete_conversation"})
          => IF call'.key_ok
             THEN call'.status = 200
             ELSE /\ call'.status = 401
                  /\ call'.ids = {}
                  /\ UNCHANGED <<conversations, messages, leads>>]_vars

\* a cleanup run without the key was refused while a conversation had expired
CleanupRefused ==
    /\ call.fn = "cleanup_run"
    /\ call.status = 401
    /\ cleanup_old_sessions(TtlSeconds).ids # {}

\* C19: chunk_text_by_words terminates for every text, every chunk_size and
\* every overlap >= 0.
ChunkTextTerminates ==
    <>(call.fn = "chunk_text_by_words" /\ call.at = "returned")

\* the same for chunk_size <= 0 or overlap < chunk_size
ChunkTextTerminatesUnderOverlap ==
    (call.fn = "chunk_text_by_words"
        /\ (call.chunk_size <= 0 \/ call.overlap < call.chunk_size))
        => <>(call.at = "returned")

\* the chunks joined, each chunk after the first without its first `overlap` words
RECURSIVE JoinWithoutOverlap(_, _)
JoinWithoutOverlap(chunks, overlap) ==
    IF chunks = <<>> THEN <<>>
    ELSE IF Len(chunks) = 1 THEN chunks[1]
    ELSE JoinWithoutOverlap(SubSeq(chunks, 1, Len(chunks) - 1), overlap)
            \o SubSeq(chunks[Len(chunks)], overlap + 1, Len(chunks[Len(chunks)]))

\* the last k words of a chunk
LastWords(chunk, k) == SubSeq(chunk, Len(chunk) - k + 1, Len(chunk))

\* C20: for chunk_size > overlap >= 0 the chunks are a sliding window over the
\* words of the text: each holds at most chunk_size words, each chunk after
\* the first starts with exactly the last `overlap` words of the one before,
\* and without those overlaps the chunks joined are the words of the text;
\* with chunk_size <= 0 the result is one chunk holding all words; an empty
\* text yields no chunk.
ChunksSlidingWindow ==
    (call.fn = "chunk_text_by_words" /\ call.at = "returned")
        => LET words == SelectSeq(call.text, LAMBDA t : t \in Tokens \ {" "})
               chunks == call.chunks
           IN  /\ call.text = <<>> => chunks = <<>>
               /\ (call.text # <<>> /\ call.chunk_size <= 0) => chunks = <<words>>
               /\ call.chunk_size > call.overlap
                     => /\ \A k \in 1..Len(chunks) :
                              Len(chunks[k]) >= 1 /\ Len(chunks[k]) <= call.chunk_size
                        /\ \A k \in 2..Len(chunks) :
                              /\ Len(chunks[k]) > call.overlap
                              /\ Len(chunks[k - 1]) >= call.overlap
                              /\ SubSeq(chunks[k], 1, call.overlap)
                                    = LastWords(chunks[k - 1], call.overlap)
                        /\ JoinWithoutOverlap(chunks, call.overlap) = words

\* a text was split into three chunks that overlap by one word
ThreeOverlappingChunks ==
    /\ call.fn = "chunk_text_by_words"
    /\ call.at = "returned"
    /\ call.overlap = 1
    /\ call.chunk_size > 1
    /\ Len(call.chunks) = 3

\* a text that is not blank
NonBlank(text) == \E i \in 1..Len(text) : text[i] # " "

\* C21: when text extraction yields empty text or fails, OCR is attempted
\* before giving up; "no text extracted" with inserted 0 is returned only when
\* neither extraction nor OCR yields non-blank text, and then nothing is
\* written to the vector store.
IngestOcrBeforeGivingUp ==
    (call.fn = "ingest_pdf_bytes" /\ call.at = "returned")
        => /\ (call.parse.raised \/ ~NonBlank(call.parse.text)) => call.ocr_called
           /\ call.result.error = "no text extracted"
                 => /\ call.result.inserted = 0
                    /\ call.vectors = <<>>
                    /\ ~NonBlank(call.parse.text)
                    /\ ~NonBlank(call.ocr.text)

\* the same when parse_pdf raises
IngestOcrAfterParseError ==
    (call.fn = "ingest_pdf_bytes" /\ call.at = "returned" /\ call.parse.raised)
        => /\ call.ocr_called
           /\ call.result.error = "no text extracted"
                 => /\ call.result.inserted = 0
                    /\ call.vectors = <<>>
                    /\ ~NonBlank(call.ocr.text)

\* the Chroma collection and the in-memory store are not both set
OneBackend == call.collection = NoObject \/ call.in_memory_store = NoObject

\* C22: get_chroma_client initialises the backend once: once a call has
\* returned, the backend objects are never replaced, every call returns that
\* backend, and the Chroma collection and the in-memory store are never both
\* set.
BackendInitialisedOnce ==
    [][call.fn = "get_chroma_client"
          => /\ OneBackend'
             /\ Backend # NoObject
                   => /\ call'.collection = call.collection
                      /\ call'.chroma_client = call.chroma_client
                      /\ call'.in_memory_store = call.in_memory_store
                      /\ call'.objects = call.objects
             /\ \A t \in Threads :
                   call'.returned[t] # NoObject => call'.returned[t] = Backend']_vars

\* a later call has returned the in-memory store that an earlier call created
\* after the Chroma client could not open its collection
LaterCallSameBackend ==
    /\ call.fn = "get_chroma_client"
    /\ call.calls = MaxCalls
    /\ call.in_memory_store = 2
    /\ \A t \in Threads : call.returned[t] = call.in_memory_store

\* the stored assistant replies of a conversation that start with the
\* canonical greeting
Greeted(cid) ==
    {i \in 1..Len(messages) :
        /\ messages[i].conversation_id = cid
        /\ messages[i].role = "assistant"
        /\ Len(messages[i].text) >= Len(greeting)
        /\ SubSeq(messages[i].text, 1, Len(greeting)) = greeting}

\* C23: within one conversation, however many chat requests it has seen, at
\* most one assistant reply carries the prepended canonical greeting.
GreetedAtMostOnce ==
    \A c \in conversations : Cardinality(Greeted(c.id)) <= 1

\* the same for conversations of at most HistoryLimit + 1 messages
GreetedOnceWithinHistoryLimit ==
    \A c \in conversations :
        Len(MessagesOf(messages, c.id)) <= HistoryLimit + 1
            => Cardinality(Greeted(c.id)) <= 1

\* a reply without the greeting was saved in a conversation that had greeted
GreetingNotRepeated ==
    \E c \in conversations :
        /\ Cardinality(Greeted(c.id)) = 1
        /\ \E i \in 1..Len(messages) :
              /\ messages[i].conversation_id = c.id
              /\ messages[i].id > 0
              /\ messages[i].role = "assistant"
              /\ messages[i].text = <<"answer">>

====
